---- MODULE Spec2Model ----
(***************************************************************************)
(* struvedb: an embedded document store.  The model covers the collection  *)
(* types of the crate (Collection with its InMemory / Dir / File backends, *)
(* FileBasedCollection, InMemoryCollection), the fixed-width record file   *)
(* and the directory of <key>.json files they persist to.                  *)
(*                                                                         *)
(* The record file is a byte sequence, kept run-length encoded: a run      *)
(* [b, d, n] is n equal bytes, b in {"json", " ", "\n", "nul"}; the bytes   *)
(* of the JSON text of document d are the run ["json", d, d.len].          *)
(***************************************************************************)
EXTENDS Integers, Sequences, FiniteSets, TLC

VARIABLES kind, backend, rule, documents, uuid_to_idx, max_byte_length,
          byte_length_increment, file, dir_files, call, result, nops,
          returned, instance, budget, file_handle, reopens, guards

vars == <<kind, backend, rule, documents, uuid_to_idx, max_byte_length,
          byte_length_increment, file, dir_files, call, result, nops,
          returned, instance, budget, file_handle, reopens, guards>>

\* What a mutating call can change besides the index.
store == <<max_byte_length, file, dir_files>>
index == <<documents, uuid_to_idx>>
\* What no call changes: the type, its backend and increment, the documents'
\* intersects rule, which instance over the path this is (0: the one
\* constructed over the empty path) and how many calls the caller makes.
\* file_handle is self.file of the File backend: "Some" once the file was
\* opened at construction, "None" otherwise.  reopens is how many further
\* instances are constructed over the path.  guards is, for each thread that
\* shares the collection behind an RwLock, the guard it holds: "none",
\* "read" or "write".
config == <<kind, backend, rule, byte_length_increment, instance, budget,
            file_handle, reopens, guards>>

(***************************************************************************)
(* Bounds of the model and constants of the program.                       *)
(***************************************************************************)
NumKeys == 2
MaxOps == 3
\* New instances constructed over the path after the first one.
MaxReopens == 1
\* Threads that share one collection.
NumThreads == 2

DefaultMaxByteLength == 128
DefaultByteLengthIncrement == 64
FileBasedInitialMaxByteLength == 0
FileBasedDefaultIncrement == 128

Keys == 1..NumKeys
Threads == 1..NumThreads
\* Values of the field the caller's intersects compares.
Names == {1, 2}
\* Byte lengths of the serialized documents the caller supplies: one that fits
\* the initial slot, one that is an exact multiple of both increments.
DocLens == {40, 192}

(***************************************************************************)
(* Documents.  key is primary_key(); name is the field the caller's        *)
(* intersects looks at; len is the byte length of the JSON text, mb the    *)
(* number of those bytes that are continuation bytes of multi-byte         *)
(* characters (so len - mb is the character count); ser tells whether      *)
(* serde_json::to_string succeeds on the document.                         *)
(***************************************************************************)
NoDoc == [key |-> 0, name |-> 0, len |-> 0, mb |-> 0, ser |-> TRUE]

Docs ==
  [key : Keys, name : Names, len : DocLens, mb : {0}, ser : {TRUE}]
    \cup [key : Keys, name : {1}, len : {40}, mb : {0}, ser : {FALSE}]

primary_key(doc) == doc.key

\* The caller's intersects: TRUE when self.intersects(other) returns Err.
\* rule is the relation on the names that the caller's predicate computes.
intersects(self, other) == <<self.name, other.name>> \in rule

\* The predicate of the crate's own User documents: equal names clash.
SameName == {<<n, n>> : n \in Names}
\* A caller's predicate that is not symmetric.
OneWay == SameName \cup {<<1, 2>>}
IntersectRules == {SameName, OneWay}

(***************************************************************************)
(* The index: an insertion-ordered sequence of documents with distinct     *)
(* keys (IndexMap<Uuid, T>, Vec<T>, and HashMap<Uuid, T> up to order).     *)
(***************************************************************************)
\* Faulty variant: the key lookup never finds the key.
contains_key_never(docs, pk) == FALSE

contains_key(docs, pk) == \E i \in 1..Len(docs) : docs[i].key = pk

\* 0-based position of pk, or -1 for None.
get_index_of(docs, pk) ==
  IF contains_key(docs, pk)
  THEN (CHOOSE i \in 1..Len(docs) : docs[i].key = pk) - 1
  ELSE -1

by_primary_key(docs, pk) ==
  IF contains_key(docs, pk) THEN docs[get_index_of(docs, pk) + 1] ELSE NoDoc

\* IndexMap::insert: replace in place under an existing key, else append.
IndexMap_insert(docs, doc) ==
  IF contains_key(docs, doc.key)
  THEN [docs EXCEPT ![get_index_of(docs, doc.key) + 1] = doc]
  ELSE Append(docs, doc)

\* IndexMap::shift_remove / Vec::remove: later elements move down by one.
\* Faulty variant: the last element is removed, whatever the key.
shift_remove_pop(docs, pk) == SubSeq(docs, 1, Len(docs) - 1)

shift_remove(docs, pk) ==
  SelectSeq(docs, LAMBDA d : d.key # pk)

(***************************************************************************)
(* The record file as run-length encoded bytes.                            *)
(***************************************************************************)
Run(b, d, n) == [b |-> b, d |-> d, n |-> n]

RECURSIVE Norm(_)
Norm(f) ==
  IF Len(f) = 0 THEN <<>>
  ELSE IF f[1].n = 0 THEN Norm(Tail(f))
  ELSE LET r == Norm(Tail(f)) IN
       IF r # <<>> /\ r[1].b = f[1].b /\ r[1].d = f[1].d
       THEN <<Run(f[1].b, f[1].d, f[1].n + r[1].n)>> \o Tail(r)
       ELSE <<f[1]>> \o r

RECURSIVE FLen(_)
FLen(f) == IF Len(f) = 0 THEN 0 ELSE f[1].n + FLen(Tail(f))

RECURSIVE FTake(_, _)
FTake(f, k) ==
  IF k <= 0 \/ Len(f) = 0 THEN <<>>
  ELSE IF f[1].n <= k THEN <<f[1]>> \o FTake(Tail(f), k - f[1].n)
  ELSE <<Run(f[1].b, f[1].d, k)>>

RECURSIVE FDrop(_, _)
FDrop(f, k) ==
  IF Len(f) = 0 THEN <<>>
  ELSE IF k <= 0 THEN f
  ELSE IF f[1].n <= k THEN FDrop(Tail(f), k - f[1].n)
  ELSE <<Run(f[1].b, f[1].d, f[1].n - k)>> \o Tail(f)

\* File::write_at(buf, offset) when it writes the whole buffer: bytes past the
\* end of the file extend it, a gap before offset reads as NUL bytes.
write_at(f, buf, offset) ==
  Norm((IF offset > FLen(f)
        THEN f \o <<Run("nul", NoDoc, offset - FLen(f))>>
        ELSE FTake(f, offset))
       \o buf \o FDrop(f, offset + FLen(buf)))

\* File::set_len(0).
set_len_0(f) == <<>>

\* serde_json::to_string(&doc): the bytes of the JSON text.
to_string(doc) == <<Run("json", [doc EXCEPT !.ser = TRUE], doc.len)>>

\* format!("{:width$}\n", json, width = w): pads with spaces up to w
\* characters (not bytes), never truncates, then a newline.
padded_string(doc, w) ==
  Norm(to_string(doc)
       \o <<Run(" ", NoDoc, IF w > doc.len - doc.mb THEN w - (doc.len - doc.mb) ELSE 0),
            Run("\n", NoDoc, 1)>>)

\* let div = (byte_length / increment) + 1; max_byte_length = increment * div
\* Faulty variant: the slot grows to the length of the document.
grown_byte_length_exact(byte_length, increment) == byte_length

grown_byte_length(byte_length, increment) ==
  increment * ((byte_length \div increment) + 1)


\* Faulty variant: the slot size is recomputed from every document written.
needs_resize_always(byte_length, max_len) == TRUE

\* if byte_length > self.max_byte_length
needs_resize(byte_length, max_len) == byte_length > max_len

(***************************************************************************)
(* Single-file backend helpers.  fail is the number of the I/O call        *)
(* (set_len, write_at) of the running operation that the storage medium    *)
(* refuses, 0 for none.  A refused call changes nothing in the file.        *)
(* Each helper returns its Result ("Ok" or the error text) with the file    *)
(* it leaves behind.                                                        *)
(***************************************************************************)
\* Faulty variant: the loop goes on after a refused write and reports the
\* error at its end.
RECURSIVE write_slots_skipping(_, _, _, _, _)
write_slots_skipping(docs, idx, w, f, fail) ==
  IF idx >= Len(docs) THEN [res |-> "Ok", file |-> f, io |-> Len(docs) + 1]
  ELSE LET doc == docs[idx + 1] IN
       IF ~doc.ser
       THEN [res |-> "Error turning struct into JSON", file |-> f, io |-> idx + 1]
       ELSE IF doc.len > w
       THEN [res |-> "Struct is to large", file |-> f, io |-> idx + 1]
       ELSE IF fail = idx + 2
       THEN [write_slots_skipping(docs, idx + 1, w, f, fail)
               EXCEPT !.res = "Failed to write"]
       ELSE write_slots_skipping(docs, idx + 1, w,
                                 write_at(f, padded_string(doc, w), idx * (w + 1)),
                                 fail)

\* The loop of resize_db / rewrite_file from position idx (0-based) on; the
\* write of position idx is I/O call number idx + 2 (set_len was call 1).
RECURSIVE write_slots(_, _, _, _, _)
write_slots(docs, idx, w, f, fail) ==
  IF idx >= Len(docs) THEN [res |-> "Ok", file |-> f, io |-> Len(docs) + 1]
  ELSE LET doc == docs[idx + 1] IN
       IF ~doc.ser
       THEN [res |-> "Error turning struct into JSON", file |-> f, io |-> idx + 1]
       ELSE IF doc.len > w
       THEN [res |-> "Struct is to large", file |-> f, io |-> idx + 1]
       ELSE IF fail = idx + 2
       THEN [res |-> "Failed to write", file |-> f, io |-> idx + 2]
       ELSE write_slots(docs, idx + 1, w,
                        write_at(f, padded_string(doc, w), idx * (w + 1)), fail)

\* Faulty variant: growing the slot size leaves the stored slots as they are.
resize_db_in_place(docs, w, f, fail) == [res |-> "Ok", file |-> f, io |-> 0]

resize_db(docs, w, f, fail) ==
  IF fail = 1
  THEN [res |-> "Failed to clear contents of DB.", file |-> f, io |-> 1]
  ELSE write_slots(docs, 0, w, set_len_0(f), fail)

\* Faulty variant: the slots are rewritten without clearing the file first.
rewrite_file_over(docs, w, f, fail) == write_slots(docs, 0, w, f, fail)

rewrite_file(docs, w, f, fail) ==
  IF fail = 1
  THEN [res |-> "Failed to clear contents of DB.", file |-> f, io |-> 1]
  ELSE write_slots(docs, 0, w, set_len_0(f), fail)

\* The serialize / grow / resize prefix shared by the two write paths:
\* the slot width after it, and what the resize (if any) did.
grow_and_resize(doc, docs, max_len, increment, f, fail) ==
  LET grow == needs_resize(doc.len, max_len)
      w == IF grow THEN grown_byte_length(doc.len, increment) ELSE max_len
      rs == IF grow THEN resize_db(docs, w, f, fail)
            ELSE [res |-> "Ok", file |-> f, io |-> 0]
  IN [res |-> rs.res, max_byte_length |-> w, file |-> rs.file, io |-> rs.io]

\* A negative fail is a short write of the call's own slot: write_at returns
\* Ok(n) after writing only the first n bytes of the buffer, the JSON text
\* without its padding (-1) or everything but the newline (-2).
ShortFails == {-1, -2}

short_len(fail, doc, w) == IF fail = -1 THEN doc.len ELSE FLen(padded_string(doc, w)) - 1

\* The positional write of the document's slot at position idx; the code
\* tests write_success.is_err() only, so Ok(n) with n short passes for Ok.
write_slot(doc, idx, g, fail) ==
  IF fail = g.io + 1
  THEN [res |-> "Failed to write", max_byte_length |-> g.max_byte_length,
        file |-> g.file]
  ELSE IF fail < 0
  THEN [res |-> "Ok", max_byte_length |-> g.max_byte_length,
        file |-> write_at(g.file,
                          FTake(padded_string(doc, g.max_byte_length),
                                short_len(fail, doc, g.max_byte_length)),
                          idx * (g.max_byte_length + 1))]
  ELSE [res |-> "Ok", max_byte_length |-> g.max_byte_length,
        file |-> write_at(g.file, padded_string(doc, g.max_byte_length),
                          idx * (g.max_byte_length + 1))]

write_new_document_to_file(doc, docs, max_len, increment, f, fail) ==
  IF ~doc.ser
  THEN [res |-> "Error turning struct into JSON", max_byte_length |-> max_len,
        file |-> f]
  ELSE LET g == grow_and_resize(doc, docs, max_len, increment, f, fail) IN
       IF g.res # "Ok"
       THEN [res |-> "Failed to resize DB", max_byte_length |-> g.max_byte_length,
             file |-> g.file]
       ELSE write_slot(doc, Len(docs), g, fail)

write_updated_document_to_file(doc, docs, max_len, increment, f, fail) ==
  IF ~doc.ser
  THEN [res |-> "Error turning struct into JSON", max_byte_length |-> max_len,
        file |-> f]
  ELSE LET g == grow_and_resize(doc, docs, max_len, increment, f, fail) IN
       IF g.res # "Ok"
       THEN [res |-> "Failed to resize DB", max_byte_length |-> g.max_byte_length,
             file |-> g.file]
       ELSE IF get_index_of(docs, primary_key(doc)) < 0
       THEN [res |-> "Row idx cannot be found",
             max_byte_length |-> g.max_byte_length, file |-> g.file]
       ELSE write_slot(doc, get_index_of(docs, primary_key(doc)), g, fail)

(***************************************************************************)
(* Directory backend helpers.  files maps a key to its <key>.json file:     *)
(* exists, and the document whose JSON text it holds (NoDoc: no text).      *)
(* fs::write is create-or-truncate (I/O call 1) then write_all (call 2).    *)
(***************************************************************************)
NoFile == [exists |-> FALSE, data |-> NoDoc]

write_to_dir(doc, files, fail) ==
  IF ~doc.ser THEN [res |-> "panic", files |-> files]
  ELSE IF fail = 1 THEN [res |-> "Error writing to disk.", files |-> files]
  ELSE IF fail = 2
  THEN [res |-> "Error writing to disk.",
        files |-> [files EXCEPT ![primary_key(doc)] = [exists |-> TRUE, data |-> NoDoc]]]
  ELSE [res |-> "Ok",
        files |-> [files EXCEPT ![primary_key(doc)] =
                     [exists |-> TRUE, data |-> [doc EXCEPT !.ser = TRUE]]]]

remove_from_dir(pk, files, fail) ==
  IF ~files[pk].exists \/ fail = 1
  THEN [res |-> "Error removing file from dir (it may not exist)", files |-> files]
  ELSE [res |-> "Ok", files |-> [files EXCEPT ![pk] = NoFile]]


(***************************************************************************)
(* State after construction over an empty or absent path.                  *)
(***************************************************************************)
Variants ==
  {<<"Collection", "InMemory">>, <<"Collection", "Dir">>, <<"Collection", "File">>,
   <<"FileBasedCollection", "File">>, <<"InMemoryCollection", "InMemory">>}

\* I/O calls of one operation that can be refused: 0 is none.
Fails == 0..(NumKeys + 2)

\* The last call: its operation, its argument (doc, or pk for delete), the
\* document the index held under that key when it was made (NoDoc: none), and
\* what the backend step of the call returned ("none": not reached).
NoCall == [op |-> "new", doc |-> NoDoc, pk |-> 0, prev |-> NoDoc, s |-> "none",
           p |-> {}]

Init ==
  /\ \E v \in Variants : kind = v[1] /\ backend = v[2]
  /\ rule \in IntersectRules
  /\ documents = <<>>
  /\ uuid_to_idx = [k \in {} |-> 0]
  /\ max_byte_length = (CASE kind = "Collection" -> DefaultMaxByteLength
                          [] kind = "FileBasedCollection" -> FileBasedInitialMaxByteLength
                          [] OTHER -> 0)
  /\ byte_length_increment = (CASE kind = "Collection" -> DefaultByteLengthIncrement
                                [] kind = "FileBasedCollection" -> FileBasedDefaultIncrement
                                [] OTHER -> 0)
  /\ file = <<>>
  /\ dir_files = [k \in Keys |-> NoFile]
  /\ call = NoCall
  /\ result = "Ok"
  /\ nops = 0
  /\ returned = <<>>
  /\ instance = 0
  /\ budget = MaxOps
  /\ file_handle = (IF backend = "File" THEN "Some" ELSE "None")
  /\ reopens = MaxReopens
  /\ guards = [t \in Threads |-> "none"]

\* A call is made on a live collection; a panic ends the thread that owns it.
CanCall == nops < budget /\ result # "panic"

\* The call returns res; s is what its backend step returned.
Returns(op, doc, pk, s, res) ==
  /\ call' = [op |-> op, doc |-> doc, pk |-> pk,
              prev |-> by_primary_key(documents, pk), s |-> s, p |-> {}]
  /\ result' = res
  /\ nops' = nops + 1
  /\ returned' = <<>>
  /\ UNCHANGED config

(***************************************************************************)
(* Collection (collections/collection.rs)                                  *)
(***************************************************************************)
\* The conflict pass of Collection: new_doc.intersects(doc) over the stored
\* documents of another key.
\* Faulty variant: the check is evaluated in the other argument order.
Collection_clash_swapped(docs, new_doc) ==
  \E i \in 1..Len(docs) :
    /\ primary_key(new_doc) # primary_key(docs[i])
    /\ intersects(docs[i], new_doc)

\* Faulty variant: the stored document of the same key is not exempt.
Collection_clash_no_exempt(docs, new_doc) ==
  \E i \in 1..Len(docs) : intersects(new_doc, docs[i])

Collection_clash(docs, new_doc) ==
  \E i \in 1..Len(docs) :
    /\ primary_key(new_doc) # primary_key(docs[i])
    /\ intersects(new_doc, docs[i])

\* The File arm of insert / update when self.file is None: every
\* self.file.as_ref().unwrap() panics, after what the code did before it.
write_without_file(op, doc) ==
  IF ~doc.ser
  THEN [res |-> "Error turning struct into JSON", max_byte_length |-> max_byte_length,
        file |-> file]
  ELSE IF needs_resize(doc.len, max_byte_length)
  THEN [res |-> "panic",
        max_byte_length |-> grown_byte_length(doc.len, byte_length_increment),
        file |-> file]
  ELSE IF op = "update" /\ get_index_of(documents, primary_key(doc)) < 0
  THEN [res |-> "Row idx cannot be found", max_byte_length |-> max_byte_length,
        file |-> file]
  ELSE [res |-> "panic", max_byte_length |-> max_byte_length, file |-> file]

\* The match on self.backend of insert / update: the backend write.
Collection_write(op, doc, fail) ==
  CASE backend = "Dir" ->
         LET s == write_to_dir(doc, dir_files, fail) IN
         [res |-> s.res, max_byte_length |-> max_byte_length, file |-> file,
          files |-> s.files]
    [] backend = "File" ->
         LET s == IF file_handle = "None" THEN write_without_file(op, doc)
                  ELSE IF op = "insert"
                  THEN write_new_document_to_file(doc, documents, max_byte_length,
                                                  byte_length_increment, file, fail)
                  ELSE write_updated_document_to_file(doc, documents, max_byte_length,
                                                      byte_length_increment, file, fail)
         IN [res |-> s.res, max_byte_length |-> s.max_byte_length, file |-> s.file,
             files |-> dir_files]
    [] OTHER ->
         [res |-> "Ok", max_byte_length |-> max_byte_length, file |-> file,
          files |-> dir_files]

\* The part of insert / update after the conflict pass.
Collection_store(op, doc, fail) ==
  LET s == Collection_write(op, doc, fail) IN
  /\ fail > 0 => s.res \notin {"Ok", "panic"}
  /\ fail < 0 => (backend = "File" /\ s.res = "Ok")
  /\ max_byte_length' = s.max_byte_length
  /\ file' = s.file
  /\ dir_files' = s.files
  /\ UNCHANGED uuid_to_idx
  /\ IF s.res = "panic"
     THEN Returns(op, doc, primary_key(doc), s.res, "panic") /\ UNCHANGED documents
     ELSE IF s.res # "Ok"
     THEN Returns(op, doc, primary_key(doc), s.res, "Error writing to DB")
          /\ UNCHANGED documents
     ELSE Returns(op, doc, primary_key(doc), s.res, "Ok")
          /\ documents' = IndexMap_insert(documents, doc)

Collection_insert(new_doc, fail) ==
  /\ kind = "Collection" /\ CanCall
  /\ IF contains_key(documents, primary_key(new_doc))
     THEN /\ fail = 0
          /\ Returns("insert", new_doc, primary_key(new_doc), "none", "Primary key used")
          /\ UNCHANGED <<index, store>>
     ELSE IF Collection_clash(documents, new_doc)
     THEN /\ fail = 0
          /\ Returns("insert", new_doc, primary_key(new_doc), "none",
                     "Intersection occurred")
          /\ UNCHANGED <<index, store>>
     ELSE Collection_store("insert", new_doc, fail)

Collection_update(updated_doc, fail) ==
  /\ kind = "Collection" /\ CanCall
  /\ IF Collection_clash(documents, updated_doc)
     THEN /\ fail = 0
          /\ Returns("update", updated_doc, primary_key(updated_doc), "none",
                     "Intersection occurred")
          /\ UNCHANGED <<index, store>>
     ELSE Collection_store("update", updated_doc, fail)

Collection_delete(pk, fail) ==
  /\ kind = "Collection" /\ CanCall
  /\ IF ~contains_key(documents, pk)
     THEN /\ fail = 0
          /\ Returns("delete", NoDoc, pk, "none", "Key does not exist")
          /\ UNCHANGED <<index, store>>
     ELSE LET docs == shift_remove(documents, pk)
              s == CASE backend = "Dir" ->
                          LET r == remove_from_dir(pk, dir_files, fail) IN
                          [res |-> r.res, file |-> file, files |-> r.files]
                     [] backend = "File" ->
                          LET r == IF file_handle = "None"
                                   THEN [res |-> "panic", file |-> file]
                                   ELSE rewrite_file(docs, max_byte_length, file, fail)
                          IN [res |-> r.res, file |-> r.file, files |-> dir_files]
                     [] OTHER -> [res |-> "Ok", file |-> file, files |-> dir_files]
          IN /\ fail # 0 => s.res \notin {"Ok", "panic"}
             /\ documents' = docs
             /\ file' = s.file
             /\ dir_files' = s.files
             /\ UNCHANGED <<uuid_to_idx, max_byte_length>>
             /\ Returns("delete", NoDoc, pk, s.res,
                        IF s.res \in {"Ok", "panic"} THEN s.res
                        ELSE IF backend = "Dir" THEN "Error removing from DB"
                        ELSE "Error writing to DB")


(***************************************************************************)
(* FileBasedCollection (collections/file_based_collection.rs): a Vec of     *)
(* documents and a HashMap from key to position in it.                      *)
(***************************************************************************)
\* The conflict pass of FileBasedCollection: v.intersects(&doc) over the
\* stored documents v of another key.
FileBasedCollection_clash(docs, doc) ==
  \E i \in 1..Len(docs) :
    /\ primary_key(docs[i]) # primary_key(doc)
    /\ intersects(docs[i], doc)

FileBasedCollection_resize_db(docs, w, f, fail) ==
  IF fail = 1
  THEN [res |-> "Failed to clear contents of DB.", file |-> f, io |-> 1]
  ELSE write_slots(docs, 0, w, set_len_0(f), fail)

\* The "Write to db" / "Update DB" part of insert and update up to the
\* positional write: serialize, grow, resize.
FileBasedCollection_grow(doc, fail) ==
  LET grow == needs_resize(doc.len, max_byte_length)
      w == IF grow THEN grown_byte_length(doc.len, byte_length_increment)
           ELSE max_byte_length
      rs == IF grow THEN FileBasedCollection_resize_db(documents, w, file, fail)
            ELSE [res |-> "Ok", file |-> file, io |-> 0]
  IN [res |-> rs.res, max_byte_length |-> w, file |-> rs.file, io |-> rs.io]

\* Faulty variant: the key is removed and the larger positions stay.
uuid_to_idx_remove_only(map, pk) == [k \in DOMAIN map \ {pk} |-> map[k]]

\* for (_k, v) in uuid_to_idx.iter_mut() { if *v > idx { *v -= 1 } }; remove(uuid)
uuid_to_idx_remove(map, pk) ==
  [k \in DOMAIN map \ {pk} |-> IF map[k] > map[pk] THEN map[k] - 1 ELSE map[k]]

\* Vec::remove(idx), idx 0-based.
Vec_remove(docs, idx) ==
  [i \in 1..(Len(docs) - 1) |-> IF i <= idx THEN docs[i] ELSE docs[i + 1]]

FileBasedCollection_insert(doc, fail) ==
  /\ kind = "FileBasedCollection" /\ CanCall
  /\ UNCHANGED dir_files
  /\ IF primary_key(doc) \in DOMAIN uuid_to_idx
     THEN /\ fail = 0
          /\ Returns("insert", doc, primary_key(doc), "none", "Primary key used")
          /\ UNCHANGED <<index, max_byte_length, file>>
     ELSE IF FileBasedCollection_clash(documents, doc)
     THEN /\ fail = 0
          /\ Returns("insert", doc, primary_key(doc), "none", "Clash occurred")
          /\ UNCHANGED <<index, max_byte_length, file>>
     ELSE IF ~doc.ser
     THEN /\ fail = 0
          /\ Returns("insert", doc, primary_key(doc), "Error turning struct into JSON",
                     "Error turning struct into JSON")
          /\ UNCHANGED <<index, max_byte_length, file>>
     ELSE LET g == FileBasedCollection_grow(doc, fail)
              s == IF g.res # "Ok"
                   THEN [res |-> "Failed to resize DB",
                         max_byte_length |-> g.max_byte_length, file |-> g.file]
                   ELSE write_slot(doc, Len(documents), g, fail)
          IN /\ fail > 0 => s.res # "Ok"
             /\ fail < 0 => s.res = "Ok"
             /\ max_byte_length' = s.max_byte_length
             /\ file' = s.file
             /\ Returns("insert", doc, primary_key(doc), s.res, s.res)
             /\ IF s.res = "Ok"
                THEN /\ uuid_to_idx' =
                          [k \in DOMAIN uuid_to_idx \cup {primary_key(doc)} |->
                             IF k = primary_key(doc) THEN Len(documents)
                             ELSE uuid_to_idx[k]]
                     /\ documents' = Append(documents, doc)
                ELSE UNCHANGED index

FileBasedCollection_update(doc, fail) ==
  /\ kind = "FileBasedCollection" /\ CanCall
  /\ UNCHANGED <<dir_files, uuid_to_idx>>
  /\ IF FileBasedCollection_clash(documents, doc)
     THEN /\ fail = 0
          /\ Returns("update", doc, primary_key(doc), "none", "Clash occurred")
          /\ UNCHANGED <<documents, max_byte_length, file>>
     ELSE IF ~doc.ser
     THEN /\ fail = 0
          /\ Returns("update", doc, primary_key(doc), "Error turning struct into JSON",
                     "Error turning struct into JSON")
          /\ UNCHANGED <<documents, max_byte_length, file>>
     ELSE LET g == FileBasedCollection_grow(doc, fail)
              s == IF g.res # "Ok"
                   THEN [res |-> "Failed to resize DB",
                         max_byte_length |-> g.max_byte_length, file |-> g.file]
                   ELSE IF primary_key(doc) \notin DOMAIN uuid_to_idx
                   THEN [res |-> "Row idx cannot be found",
                         max_byte_length |-> g.max_byte_length, file |-> g.file]
                   ELSE write_slot(doc, uuid_to_idx[primary_key(doc)], g, fail)
          IN /\ fail > 0 => s.res # "Ok"
             /\ fail < 0 => s.res = "Ok"
             /\ max_byte_length' = s.max_byte_length
             /\ file' = s.file
             /\ Returns("update", doc, primary_key(doc), s.res, s.res)
             /\ IF s.res = "Ok"
                THEN documents' =
                       [documents EXCEPT ![uuid_to_idx[primary_key(doc)] + 1] = doc]
                ELSE UNCHANGED documents

FileBasedCollection_delete(uuid, fail) ==
  /\ kind = "FileBasedCollection" /\ CanCall
  /\ UNCHANGED dir_files
  /\ IF uuid \notin DOMAIN uuid_to_idx
     THEN /\ fail = 0
          /\ Returns("delete", NoDoc, uuid, "none", "No idx found")
          /\ UNCHANGED <<index, max_byte_length, file>>
     ELSE LET docs == Vec_remove(documents, uuid_to_idx[uuid])
              s == FileBasedCollection_resize_db(docs, max_byte_length, file, fail)
          IN /\ fail # 0 => s.res # "Ok"
             /\ uuid_to_idx' = uuid_to_idx_remove(uuid_to_idx, uuid)
             /\ documents' = docs
             /\ file' = s.file
             /\ UNCHANGED max_byte_length
             /\ Returns("delete", NoDoc, uuid, s.res, s.res)

(***************************************************************************)
(* InMemoryCollection (collections/in_memory_collection.rs): a HashMap,     *)
(* kept here in its iteration order, which is unspecified.                  *)
(***************************************************************************)
\* The sequences that hold each element of S once.
Perms(S) ==
  {s \in [1..Cardinality(S) -> S] : \A x \in S : \E i \in DOMAIN s : s[i] = x}

\* HashMap::insert(pk, doc): the value of an indexed key is replaced where it
\* is; a new key lands anywhere, and the growth of the table can move the
\* others.
HashMap_insert(docs, doc) ==
  IF contains_key(docs, primary_key(doc))
  THEN {IndexMap_insert(docs, doc)}
  ELSE Perms({docs[i] : i \in 1..Len(docs)} \cup {doc})

InMemoryCollection_insert(new_doc) ==
  /\ kind = "InMemoryCollection" /\ CanCall
  /\ UNCHANGED <<uuid_to_idx, store>>
  /\ IF contains_key(documents, primary_key(new_doc))
     THEN /\ Returns("insert", new_doc, primary_key(new_doc), "none", "Primary key used")
          /\ UNCHANGED documents
     ELSE IF Collection_clash(documents, new_doc)
     THEN /\ Returns("insert", new_doc, primary_key(new_doc), "none",
                     "Intersection occurred")
          /\ UNCHANGED documents
     ELSE /\ Returns("insert", new_doc, primary_key(new_doc), "none", "Ok")
          /\ documents' \in HashMap_insert(documents, new_doc)

InMemoryCollection_update(updated_doc) ==
  /\ kind = "InMemoryCollection" /\ CanCall
  /\ UNCHANGED <<uuid_to_idx, store>>
  /\ IF Collection_clash(documents, updated_doc)
     THEN /\ Returns("update", updated_doc, primary_key(updated_doc), "none",
                     "Intersection occurred")
          /\ UNCHANGED documents
     ELSE /\ Returns("update", updated_doc, primary_key(updated_doc), "none", "Ok")
          /\ documents' \in HashMap_insert(documents, updated_doc)

InMemoryCollection_delete(pk) ==
  /\ kind = "InMemoryCollection" /\ CanCall
  /\ UNCHANGED <<uuid_to_idx, store>>
  /\ IF ~contains_key(documents, pk)
     THEN /\ Returns("delete", NoDoc, pk, "none", "Key does not exist")
          /\ UNCHANGED documents
     ELSE /\ Returns("delete", NoDoc, pk, "none", "Ok")
          /\ documents' = shift_remove(documents, pk)

(***************************************************************************)
(* The caller: any sequence of mutating calls, with any refused I/O call.   *)
(***************************************************************************)
Next ==
  \/ \E d \in Docs, fail \in Fails : Collection_insert(d, fail)
  \/ \E d \in Docs, fail \in Fails : Collection_update(d, fail)
  \/ \E pk \in Keys, fail \in Fails : Collection_delete(pk, fail)
  \/ \E d \in Docs, fail \in Fails : FileBasedCollection_insert(d, fail)
  \/ \E d \in Docs, fail \in Fails : FileBasedCollection_update(d, fail)
  \/ \E pk \in Keys, fail \in Fails : FileBasedCollection_delete(pk, fail)
  \/ \E d \in Docs : InMemoryCollection_insert(d)
  \/ \E d \in Docs : InMemoryCollection_update(d)
  \/ \E pk \in Keys : InMemoryCollection_delete(pk)

Spec == Init /\ [][Next]_vars


(***************************************************************************)
(* Vocabulary of the properties.                                           *)
(***************************************************************************)
\* The error taxonomy, as the texts the operations return.
DuplicateKey == {"Primary key used"}
ConstraintViolation == {"Intersection occurred", "Clash occurred"}
KeyNotFound == {"Key does not exist", "No idx found", "Row idx cannot be found"}
BackendFailure ==
  {"Error writing to DB", "Error removing from DB", "Failed to resize DB",
   "Failed to write", "Failed to clear contents of DB.", "Struct is to large",
   "Error turning struct into JSON"}
Errors == DuplicateKey \cup ConstraintViolation \cup KeyNotFound \cup BackendFailure

\* The step is a call of op (every call advances nops).
Called(op) == nops' = nops + 1 /\ call'.op = op

\* The key is in the index (before the step).
Indexed(pk) == \E i \in 1..Len(documents) : documents[i].key = pk

\* by_primary_key as each collection type answers it, on index <<docs, map>>.
Lookup(docs, map, pk) ==
  IF kind = "FileBasedCollection"
  THEN IF pk \in DOMAIN map THEN docs[map[pk] + 1] ELSE NoDoc
  ELSE IF \E i \in 1..Len(docs) : docs[i].key = pk
       THEN docs[CHOOSE i \in 1..Len(docs) : docs[i].key = pk]
       ELSE NoDoc

\* The conflict check between an incoming document and a stored one, in the
\* argument order the collection type evaluates it.
Conflict(doc, stored) ==
  IF kind = "FileBasedCollection" THEN intersects(stored, doc)
  ELSE intersects(doc, stored)

\* doc conflicts with a stored document of another key.
ConflictsWithOther(doc) ==
  \E i \in 1..Len(documents) :
    documents[i].key # doc.key /\ Conflict(doc, documents[i])

\* The smallest multiple of increment that is >= byte_length.
SmallestMultiple(byte_length, increment) ==
  increment * ((byte_length + increment - 1) \div increment)


(***************************************************************************)
(* C1  Uniqueness invariant: for every ordered pair of indexed documents   *)
(* A, B with different keys, A.intersects(B) reports no conflict, for any  *)
(* caller-supplied intersects, symmetric or not.                           *)
(***************************************************************************)
C1_Uniqueness ==
  \A i, j \in 1..Len(documents) :
    documents[i].key # documents[j].key
      => ~intersects(documents[i], documents[j])

\* The same over the callers whose intersects is symmetric.
C1_UniquenessSymmetric ==
  (\A a, b \in Names : (<<a, b>> \in rule) = (<<b, a>> \in rule)) => C1_Uniqueness

(***************************************************************************)
(* C2  Duplicate key rejection: insert of a document whose key is in the   *)
(* index returns DuplicateKey whatever its other fields, and leaves the    *)
(* index, the slot size and the backend contents unchanged.                *)
(***************************************************************************)
C2_DuplicateKeyRejected ==
  [][(Called("insert") /\ Indexed(call'.pk))
       => (result' \in DuplicateKey /\ UNCHANGED <<index, store>>)]_vars

\* A duplicate-key insert was refused for a document that also conflicts with
\* the stored document of another key.
C2_Witness ==
  /\ call.op = "insert" /\ result \in DuplicateKey
  /\ call.prev # NoDoc
  /\ ConflictsWithOther(call.doc)

(***************************************************************************)
(* C3  Conflict rejection: insert of a document with a fresh key that      *)
(* conflicts with a stored document of another key returns                 *)
(* ConstraintViolation, writes nothing to the backend and leaves the index *)
(* (and so the document count) unchanged.                                  *)
(***************************************************************************)
C3_ConflictRejected ==
  [][(Called("insert") /\ ~Indexed(call'.pk) /\ ConflictsWithOther(call'.doc))
       => (result' \in ConstraintViolation /\ UNCHANGED <<index, store>>)]_vars

\* The second insert, of a conflicting document under a fresh key, was
\* refused and the collection still holds one document.
C3_Witness ==
  /\ call.op = "insert" /\ result \in ConstraintViolation
  /\ call.prev = NoDoc
  /\ Len(documents) = 1
  /\ ConflictsWithOther(call.doc)


C5_UpdateAbsentKeyFails ==
  [][(Called("update") /\ ~Indexed(call'.pk))
       => (result' \in Errors /\ UNCHANGED <<index, store>>)]_vars

(***************************************************************************)
(* C6  Delete of a key absent from the index returns KeyNotFound and       *)
(* changes nothing; a delete of an indexed key that returns Ok removes     *)
(* exactly that key and leaves every other key mapped to the same document.*)
(***************************************************************************)
C6_Delete ==
  [][Called("delete") =>
       /\ ~Indexed(call'.pk)
            => (result' \in KeyNotFound /\ UNCHANGED <<index, store>>)
       /\ (Indexed(call'.pk) /\ result' = "Ok")
            => /\ Lookup(documents', uuid_to_idx', call'.pk) = NoDoc
               /\ \A i \in 1..Len(documents') : documents'[i].key # call'.pk
               /\ Len(documents') = Len(documents) - 1
               /\ \A k \in Keys \ {call'.pk} :
                    Lookup(documents', uuid_to_idx', k)
                      = Lookup(documents, uuid_to_idx, k)]_vars

\* A delete succeeded and left another document in the collection.
C6_Witness ==
  /\ call.op = "delete" /\ result = "Ok"
  /\ call.prev # NoDoc
  /\ Len(documents) >= 1

\* A delete of an absent key was refused.
C6_WitnessAbsent ==
  /\ call.op = "delete" /\ result \in KeyNotFound
  /\ Len(documents) >= 1


(***************************************************************************)
(* C7  Delete failure does not desynchronize the index: a delete that      *)
(* returns an error leaves the in-memory index as it was, the key still    *)
(* mapped to its document.                                                 *)
(***************************************************************************)
C7_DeleteErrorKeepsIndex ==
  [][(Called("delete") /\ result' # "Ok") => UNCHANGED index]_vars

(***************************************************************************)
(* C8  Insert/update write failure keeps the index: when the conflict pass *)
(* lets the document through and the backend write fails (serialization,   *)
(* resize rewrite, slot or file write), the call returns an error and the  *)
(* index is what it was before the call.                                   *)
(***************************************************************************)
C8_WriteFailureReturnsErrorKeepsIndex ==
  [][((Called("insert") \/ Called("update")) /\ call'.s \notin {"none", "Ok"})
       => (result' \in Errors /\ UNCHANGED index)]_vars

\* The part of it that the code keeps: a failed backend write never changes
\* the index and never returns Ok.
C8_WriteFailureKeepsIndex ==
  [][((Called("insert") \/ Called("update")) /\ call'.s \notin {"none", "Ok"})
       => (result' # "Ok" /\ UNCHANGED index)]_vars

(***************************************************************************)
(* C9  Resize policy: when insert or update on the single-file backend     *)
(* serializes a document of byte length L above max_slot_size, the new     *)
(* max_slot_size is the smallest multiple of the increment that is >= L,   *)
(* also when L is itself a multiple of the increment.                      *)
(***************************************************************************)
C9_ResizeSmallestMultiple ==
  [][((Called("insert") \/ Called("update"))
        /\ backend = "File" /\ call'.s # "none" /\ call'.doc.ser
        /\ call'.doc.len > max_byte_length)
       => max_byte_length'
            = SmallestMultiple(call'.doc.len, byte_length_increment)]_vars

\* What the code computes: the smallest multiple strictly above L.
C9_ResizeNextMultipleAbove ==
  [][((Called("insert") \/ Called("update"))
        /\ backend = "File" /\ call'.s # "none" /\ call'.doc.ser
        /\ call'.doc.len > max_byte_length)
       => /\ max_byte_length' > call'.doc.len
          /\ max_byte_length' - byte_length_increment <= call'.doc.len
          /\ max_byte_length' % byte_length_increment = 0]_vars

(***************************************************************************)
(* C10  max_slot_size never decreases during the lifetime of a collection  *)
(* instance, whatever the call and its outcome, and is never below the     *)
(* initial slot size of its type (128 for Collection).                     *)
(***************************************************************************)
InitialSlotSize ==
  CASE kind = "Collection" -> DefaultMaxByteLength
    [] kind = "FileBasedCollection" -> FileBasedInitialMaxByteLength
    [] OTHER -> 0

Slot(f, i, w) == Norm(FTake(FDrop(f, i * (w + 1)), w + 1))

\* The position of key pk in the index, -1 for none.
Position(docs, map, pk) ==
  IF kind = "FileBasedCollection"
  THEN IF pk \in DOMAIN map THEN map[pk] ELSE -1
  ELSE get_index_of(docs, pk)

\* A call that returned Ok.
Succeeded(op) == Called(op) /\ result' = "Ok"

FileMatchesIndex(f, docs, w) ==
  /\ FLen(f) = Len(docs) * (w + 1)
  /\ \A i \in 1..Len(docs) : Slot(f, i - 1, w) = padded_string(docs[i], w)

(***************************************************************************)
(* C12.  Index/file consistency within one instance: on the single-file     *)
(* backend, started over an empty or absent file, after every successful    *)
(* insert, update or delete the file is exactly n slots of                  *)
(* max_byte_length + 1 bytes, slot i holding the serialization of the i-th  *)
(* document in index iteration order, n the number of indexed documents.    *)
(***************************************************************************)
C12_IndexFileConsistent ==
  (backend = "File" /\ call.op \in {"insert", "update", "delete"} /\ result = "Ok")
  => FileMatchesIndex(file, documents, max_byte_length)

\* What the code keeps: a successful call on a file that matched the index
\* leaves a file that matches the index.
C12_ConsistencyPreserved ==
  [][(backend = "File" /\ nops' = nops + 1 /\ result' = "Ok"
      /\ FileMatchesIndex(file, documents, max_byte_length))
     => FileMatchesIndex(file', documents', max_byte_length')]_vars

(***************************************************************************)
(* Construction over a path that an earlier instance wrote.                 *)
(***************************************************************************)
\* BufReader::lines(): the bytes of the first line, without its newline.
RECURSIVE first_line(_)
first_line(f) ==
  IF Len(f) = 0 \/ f[1].b = "\n" THEN <<>>
  ELSE <<f[1]>> \o first_line(Tail(f))

\* The bytes after the first line and its newline.
RECURSIVE after_line(_)
after_line(f) ==
  IF Len(f) = 0 THEN <<>>
  ELSE IF f[1].b = "\n" THEN FDrop(f, 1)
  ELSE after_line(Tail(f))

\* str::trim(): leading and trailing white space removed (NUL is not white
\* space).
RECURSIVE trim_start(_)
trim_start(line) ==
  IF Len(line) > 0 /\ line[1].b = " " THEN trim_start(Tail(line)) ELSE line

RECURSIVE trim_end(_)
trim_end(line) ==
  IF Len(line) > 0 /\ line[Len(line)].b = " "
  THEN trim_end(SubSeq(line, 1, Len(line) - 1))
  ELSE line

\* Faulty variant: the padding of the slot is handed to the parser.
trim_nothing(line) == line

trim(line) == trim_end(trim_start(line))

\* serde_json::from_str(text): the document whose whole JSON text this is,
\* NoDoc for Err (empty, cut short, followed or preceded by other bytes).
from_str(text) ==
  IF Len(text) = 1 /\ text[1].b = "json" /\ text[1].n = text[1].d.len
  THEN text[1].d
  ELSE NoDoc

\* for line in reader.lines() { from_str(line.trim()); if is_err() { break } .. }
RECURSIVE read_lines(_)
read_lines(f) ==
  IF Len(f) = 0 THEN <<>>
  ELSE LET document == from_str(trim(first_line(f))) IN
       IF document = NoDoc THEN <<>>
       ELSE <<document>> \o read_lines(after_line(f))

\* self.documents.insert(document.primary_key(), document) for each of docs.
RECURSIVE insert_all(_, _)
insert_all(docs, loaded) ==
  IF Len(loaded) = 0 THEN docs
  ELSE insert_all(IndexMap_insert(docs, loaded[1]), Tail(loaded))

load_structs_from_file(f) == insert_all(<<>>, read_lines(f))

\* load_structs_from_dir: the documents of the <key>.json files in the order
\* read_dir yields them, which is any; "panic" when from_reader(f).unwrap()
\* meets a file that holds no JSON text.  fail is the I/O call of the
\* construction that the storage medium refuses: 1 read_dir, 2 the read of a
\* file, 3 the open of one file, which is then skipped.
load_structs_from_dir(files, fail) ==
  LET present == {k \in DOMAIN files : files[k].exists}
      opened == IF fail = 3 THEN {present \ {k} : k \in present} ELSE {present}
  IN IF fail = 1 THEN {[res |-> "Ok", documents |-> <<>>]}
     ELSE IF present # {} /\ (fail = 2 \/ \E k \in present : files[k].data = NoDoc)
     THEN {[res |-> "panic", documents |-> <<>>]}
     ELSE UNION {{[res |-> "Ok", documents |-> docs] :
                    docs \in Perms({files[k].data : k \in ks})} : ks \in opened}

\* I/O calls of a construction that can be refused: 0 is none, 1 the open of
\* the file or the read of the directory, 2 a read, 3 the open of one file
\* of the directory.
NewFails == 0..3

\* What the storage medium refused to a construction.
Refused(fail) ==
  CASE fail = 0 -> "none"
    [] fail = 1 -> "open refused"
    [] fail = 2 -> "read refused"
    [] fail = 3 -> "entry refused"

\* Collection::new(backend, path) over the path of the running instance.
Collection_new(fail) ==
  /\ kind = "Collection" /\ instance < reopens
  /\ instance' = instance + 1
  /\ max_byte_length' = DefaultMaxByteLength
  /\ call' = [NoCall EXCEPT !.s = Refused(fail)]
  /\ returned' = <<>>
  /\ UNCHANGED <<kind, backend, rule, byte_length_increment, budget, reopens,
                 guards, nops,
                 uuid_to_idx, file, dir_files>>
  /\ CASE backend = "File" ->
            /\ fail \in 0..2
            /\ documents' = (IF fail = 0 THEN load_structs_from_file(file) ELSE <<>>)
            /\ result' = (IF fail = 2 THEN "panic" ELSE "Ok")
            /\ file_handle' = (IF fail = 0 THEN "Some" ELSE "None")
       [] backend = "Dir" ->
            /\ fail \in {2, 3} => \E k \in Keys : dir_files[k].exists
            /\ \E loaded \in load_structs_from_dir(dir_files, fail) :
                 documents' = loaded.documents /\ result' = loaded.res
            /\ file_handle' = "None"
       [] OTHER ->
            /\ fail = 0
            /\ documents' = <<>> /\ result' = "Ok" /\ file_handle' = "None"

\* FileBasedCollection::new(fp, None) over the path of the running instance:
\* f.unwrap() panics when the open is refused, line.unwrap() when a read is.
FileBasedCollection_new(fail) ==
  /\ kind = "FileBasedCollection" /\ instance < reopens
  /\ fail \in 0..2
  /\ instance' = instance + 1
  /\ max_byte_length' = FileBasedInitialMaxByteLength
  /\ call' = [NoCall EXCEPT !.s = Refused(fail)]
  /\ returned' = <<>>
  /\ result' = (IF fail = 0 THEN "Ok" ELSE "panic")
  /\ file_handle' = (IF fail = 0 THEN "Some" ELSE "None")
  /\ UNCHANGED <<kind, backend, rule, byte_length_increment, budget, reopens,
                 guards, nops,
                 file, dir_files>>
  /\ LET docs == IF fail = 0 THEN read_lines(file) ELSE <<>> IN
     /\ documents' = docs
     /\ uuid_to_idx' =
          [k \in {primary_key(docs[i]) : i \in 1..Len(docs)} |->
             (CHOOSE i \in 1..Len(docs) :
                /\ primary_key(docs[i]) = k
                /\ \A j \in (i + 1)..Len(docs) : primary_key(docs[j]) # k) - 1]

\* The caller when the storage medium refuses nothing.
NextNoFault ==
  \/ \E d \in Docs : Collection_insert(d, 0)
  \/ \E d \in Docs : Collection_update(d, 0)
  \/ \E pk \in Keys : Collection_delete(pk, 0)
  \/ \E d \in Docs : FileBasedCollection_insert(d, 0)
  \/ \E d \in Docs : FileBasedCollection_update(d, 0)
  \/ \E pk \in Keys : FileBasedCollection_delete(pk, 0)
  \/ \E d \in Docs : InMemoryCollection_insert(d)
  \/ \E d \in Docs : InMemoryCollection_update(d)
  \/ \E pk \in Keys : InMemoryCollection_delete(pk)

NextReopen == NextNoFault \/ Collection_new(0) \/ FileBasedCollection_new(0)

ReopenSpec == Init /\ [][NextReopen]_vars

Predicates == SUBSET Names

\* f(v) of the closure passed to filter and find.
satisfies(doc, p) == doc.name \in p

\* self.documents.iter().filter(|(_, v)| f(v)).map(|(_, v)| v).cloned().collect()
RECURSIVE filter(_, _)
filter(docs, p) ==
  IF Len(docs) = 0 THEN <<>>
  ELSE (IF satisfies(docs[1], p) THEN <<docs[1]>> ELSE <<>>) \o filter(Tail(docs), p)

\* Faulty variant: the search runs from the back of the index.
find_last(docs, p) ==
  IF \E i \in 1..Len(docs) : satisfies(docs[i], p)
  THEN <<docs[CHOOSE i \in 1..Len(docs) :
                /\ satisfies(docs[i], p)
                /\ \A j \in (i + 1)..Len(docs) : ~satisfies(docs[j], p)]>>
  ELSE <<>>

\* self.documents.iter().find(|(_, v)| f(v)).map(|(_, v)| v).cloned():
\* <<>> is None, <<doc>> is Some(doc).
RECURSIVE find(_, _)
find(docs, p) ==
  IF Len(docs) = 0 THEN <<>>
  ELSE IF satisfies(docs[1], p) THEN <<docs[1]>>
  ELSE find(Tail(docs), p)

\* self.documents.get(uuid).cloned()
get(docs, uuid) ==
  IF contains_key(docs, uuid) THEN <<docs[get_index_of(docs, uuid) + 1]>> ELSE <<>>

\* Faulty variant: the read drains the index it iterates.
Reads_draining(op, p, pk, docs) ==
  /\ result # "panic"
  /\ call' = [op |-> op, doc |-> NoDoc, pk |-> pk, prev |-> NoDoc, s |-> "none",
              p |-> p]
  /\ returned' = docs
  /\ result' = "Ok"
  /\ documents' = <<>>
  /\ UNCHANGED <<config, uuid_to_idx, store, nops>>

\* A read returns docs to the caller: it takes &self and touches no backend.
Reads(op, p, pk, docs) ==
  /\ result # "panic"
  /\ call' = [op |-> op, doc |-> NoDoc, pk |-> pk, prev |-> NoDoc, s |-> "none",
              p |-> p]
  /\ returned' = docs
  /\ result' = "Ok"
  /\ UNCHANGED <<config, index, store, nops>>

Collection_filter(p) == kind = "Collection" /\ Reads("filter", p, 0, filter(documents, p))

Collection_find(p) == kind = "Collection" /\ Reads("find", p, 0, find(documents, p))

Collection_by_primary_key(uuid) ==
  kind = "Collection" /\ Reads("by_primary_key", {}, uuid, get(documents, uuid))

FileBasedCollection_filter(p) ==
  kind = "FileBasedCollection" /\ Reads("filter", p, 0, filter(documents, p))

FileBasedCollection_find(p) ==
  kind = "FileBasedCollection" /\ Reads("find", p, 0, find(documents, p))

FileBasedCollection_by_primary_key(uuid) ==
  /\ kind = "FileBasedCollection"
  /\ Reads("by_primary_key", {}, uuid,
           IF uuid \notin DOMAIN uuid_to_idx THEN <<>>
           ELSE <<documents[uuid_to_idx[uuid] + 1]>>)

InMemoryCollection_filter(p) ==
  kind = "InMemoryCollection" /\ Reads("filter", p, 0, filter(documents, p))

InMemoryCollection_find(p) ==
  kind = "InMemoryCollection" /\ Reads("find", p, 0, find(documents, p))

InMemoryCollection_by_primary_key(uuid) ==
  kind = "InMemoryCollection" /\ Reads("by_primary_key", {}, uuid, get(documents, uuid))

NextRead ==
  \/ \E p \in Predicates : Collection_filter(p)
  \/ \E p \in Predicates : Collection_find(p)
  \/ \E pk \in Keys : Collection_by_primary_key(pk)
  \/ \E p \in Predicates : FileBasedCollection_filter(p)
  \/ \E p \in Predicates : FileBasedCollection_find(p)
  \/ \E pk \in Keys : FileBasedCollection_by_primary_key(pk)
  \/ \E p \in Predicates : InMemoryCollection_filter(p)
  \/ \E p \in Predicates : InMemoryCollection_find(p)
  \/ \E pk \in Keys : InMemoryCollection_by_primary_key(pk)

\* The caller that also reads, on a storage medium that refuses nothing.
ReadSpec == Init /\ [][NextNoFault \/ NextRead]_vars

\* A read call was made.
Read(op) == nops' = nops /\ instance' = instance /\ call'.op = op

\* ret is the documents of docs that satisfy p, in the order of docs.
SatisfyingInOrder(ret, docs, p) ==
  \E at \in [1..Len(ret) -> 1..Len(docs)] :
    /\ \A i, j \in 1..Len(ret) : i < j => at[i] < at[j]
    /\ \A i \in 1..Len(ret) : ret[i] = docs[at[i]] /\ docs[at[i]].name \in p
    /\ \A j \in 1..Len(docs) : docs[j].name \in p => \E i \in 1..Len(ret) : at[i] = j

\* The index of an ordered type after a successful mutation is in insertion
\* order: a new key goes last, a replaced document stays where it was, the
\* documents after a deleted one move down by one.
InsertionOrderKept ==
  /\ (Succeeded("insert") \/ Succeeded("update"))
       => documents' = (IF Indexed(call'.pk)
                        THEN [documents EXCEPT ![Position(documents, uuid_to_idx,
                                                          call'.pk) + 1] = call'.doc]
                        ELSE Append(documents, call'.doc))
  /\ Succeeded("delete")
       => documents' = [i \in 1..(Len(documents) - 1) |->
                          IF i <= Position(documents, uuid_to_idx, call'.pk)
                          THEN documents[i] ELSE documents[i + 1]]

(***************************************************************************)
(* C15.  Read ordering: on Collection and FileBasedCollection filter(p)     *)
(* returns exactly the indexed documents that satisfy p, in index           *)
(* iteration order, which is insertion order with the positions after a     *)
(* deleted document shifted down by one; find(p) returns the first element  *)
(* of that sequence, or none when it is empty.                              *)
(***************************************************************************)
C15_ReadOrdering ==
  [][kind # "InMemoryCollection"
     => /\ InsertionOrderKept
        /\ Read("filter") => SatisfyingInOrder(returned', documents, call'.p)
        /\ Read("find")
             => \E ret \in {filter(documents, call'.p)} :
                  /\ SatisfyingInOrder(ret, documents, call'.p)
                  /\ returned' = (IF ret = <<>> THEN <<>> ELSE <<ret[1]>>)]_vars

\* filter left out the first of two indexed documents.
C15_Witness ==
  /\ kind # "InMemoryCollection" /\ call.op = "filter"
  /\ Len(documents) = 2 /\ returned = <<documents[2]>>

\* find returned the first of two indexed documents that satisfy p.
C15_WitnessFind ==
  /\ kind # "InMemoryCollection" /\ call.op = "find"
  /\ Len(documents) = 2 /\ returned = <<documents[1]>>
  /\ satisfies(documents[2], call.p)

ScenarioOps == 4

ScenarioDocs ==
  {[key |-> k, name |-> k, len |-> l, mb |-> 0, ser |-> TRUE] :
     k \in 1..4, l \in {40, 150}}

ScenarioInit ==
  /\ kind = "Collection" /\ backend = "File"
  /\ rule = {<<n, n>> : n \in 1..4}
  /\ documents = <<>>
  /\ uuid_to_idx = [k \in {} |-> 0]
  /\ max_byte_length = DefaultMaxByteLength
  /\ byte_length_increment = DefaultByteLengthIncrement
  /\ file = <<>>
  /\ dir_files = [k \in Keys |-> NoFile]
  /\ call = NoCall
  /\ result = "Ok"
  /\ nops = 0
  /\ returned = <<>>
  /\ instance = 0
  /\ budget = ScenarioOps
  /\ file_handle = "Some"
  /\ reopens = MaxReopens
  /\ guards = [t \in Threads |-> "none"]

ScenarioNext == \E d \in ScenarioDocs : Collection_insert(d, 0)

ScenarioSpec == ScenarioInit /\ [][ScenarioNext]_vars

\* The first n calls were successful inserts of documents of the given
\* lengths.
Inserted(lens) ==
  /\ nops = Len(lens) /\ Len(documents) = Len(lens)
  /\ \A i \in 1..Len(lens) : documents[i].len = lens[i]

(***************************************************************************)
(* C17.  Concrete scenario: with increment 64 and initial slot size 128,    *)
(* three inserted documents of 40 bytes leave max_byte_length at 128 and a  *)
(* file of 3 slots of 129 bytes; a fourth of 150 bytes sets max_byte_length *)
(* to 192 and leaves a file of four 193-byte slots at offsets 0, 193, 386,  *)
(* 579 that hold the four documents in insertion order.                     *)
(***************************************************************************)
C17_Scenario ==
  /\ [](Inserted(<<40, 40, 40>>)
         => /\ max_byte_length = 128
            /\ FLen(file) = 3 * 129
            /\ \A i \in 0..2 :
                 FTake(FDrop(file, i * 129), 129) = padded_string(documents[i + 1], 128))
  /\ [](Inserted(<<40, 40, 40, 150>>)
         => /\ max_byte_length = 192
            /\ FLen(file) = 4 * 193
            /\ FTake(file, 193) = padded_string(documents[1], 192)
            /\ FTake(FDrop(file, 193), 193) = padded_string(documents[2], 192)
            /\ FTake(FDrop(file, 386), 193) = padded_string(documents[3], 192)
            /\ FTake(FDrop(file, 579), 193) = padded_string(documents[4], 192)
            /\ FTake(FDrop(file, 579), 150) = to_string(call.doc))
  /\ [][Succeeded("insert") => documents' = Append(documents, call'.doc)]_vars

C17_Witness ==
  /\ Inserted(<<40, 40, 40, 150>>)
  /\ byte_length_increment = 64 /\ max_byte_length = 192 /\ FLen(file) = 772

(***************************************************************************)
(* C18.  by_primary_key(k) returns the document most recently stored under  *)
(* k by a successful insert or update, and none when k was never inserted   *)
(* or the last successful mutation of k was a delete: none for every key    *)
(* after construction, and after each call the document of that call for    *)
(* its key when it returned Ok (none when it was a delete), and what it     *)
(* returned before for every other key and after every call that did not     *)
(* return Ok.                                                               *)
(***************************************************************************)
C18_ByPrimaryKeyReturnsLastStored ==
  /\ []((nops = 0 /\ instance = 0)
         => \A k \in Keys : Lookup(documents, uuid_to_idx, k) = NoDoc)
  /\ [][nops' = nops + 1
        => \A k \in Keys :
             Lookup(documents', uuid_to_idx', k) =
               (IF result' = "Ok" /\ k = call'.pk
                THEN (IF call'.op = "delete" THEN NoDoc ELSE call'.doc)
                ELSE Lookup(documents, uuid_to_idx, k))]_vars

\* The second half of C18, on a storage medium that refuses nothing and for
\* documents that serialize: an insert of a fresh non-conflicting document,
\* an update of a stored document to a non-conflicting value and a delete of
\* a stored key return Ok on every backend.
C18_CleanCallsReturnOk ==
  [][/\ (Called("insert") /\ ~Indexed(call'.pk) /\ ~ConflictsWithOther(call'.doc)
          /\ call'.doc.ser) => result' = "Ok"
     /\ (Called("update") /\ Indexed(call'.pk) /\ ~ConflictsWithOther(call'.doc)
          /\ call'.doc.ser) => result' = "Ok"
     /\ (Called("delete") /\ Indexed(call'.pk)) => result' = "Ok"]_vars

(***************************************************************************)
(* Collection with the InMemory backend as a function: what a call returns  *)
(* and the index it leaves, from the index it finds.                        *)
(***************************************************************************)
InMemory_call(docs, op, doc, pk) ==
  CASE op = "insert" ->
         IF contains_key(docs, primary_key(doc))
         THEN [res |-> "Primary key used", documents |-> docs]
         ELSE IF Collection_clash(docs, doc)
         THEN [res |-> "Intersection occurred", documents |-> docs]
         ELSE [res |-> "Ok", documents |-> IndexMap_insert(docs, doc)]
    [] op = "update" ->
         IF Collection_clash(docs, doc)
         THEN [res |-> "Intersection occurred", documents |-> docs]
         ELSE [res |-> "Ok", documents |-> IndexMap_insert(docs, doc)]
    [] op = "delete" ->
         IF ~contains_key(docs, pk)
         THEN [res |-> "Key does not exist", documents |-> docs]
         ELSE [res |-> "Ok", documents |-> shift_remove(docs, pk)]

(***************************************************************************)
(* C19.  Backend interchangeability: on a storage medium that refuses       *)
(* nothing, a Collection with the InMemory, the Dir and the File backend,   *)
(* each started empty, return the same success or error for every call and  *)
(* hold the same index (keys, documents, order) after it.  Each call on     *)
(* each backend returns and leaves what the InMemory backend returns and    *)
(* leaves from the same index; the reads are functions of the index.        *)
(***************************************************************************)
C19_BackendsInterchangeable ==
  [][(kind = "Collection" /\ nops' = nops + 1)
     => LET ref == InMemory_call(documents, call'.op, call'.doc, call'.pk) IN
        /\ (result' = "Ok") = (ref.res = "Ok")
        /\ documents' = ref.documents]_vars

\* The same restricted to documents that serialize.
C19_InterchangeableWhenSerializable ==
  [][(kind = "Collection" /\ nops' = nops + 1 /\ call'.doc.ser)
     => LET ref == InMemory_call(documents, call'.op, call'.doc, call'.pk) IN
        /\ (result' = "Ok") = (ref.res = "Ok")
        /\ documents' = ref.documents]_vars

\* The same restricted to documents that serialize and to updates of
\* indexed keys.
C19_InterchangeableOnStoredKeys ==
  [][(kind = "Collection" /\ nops' = nops + 1 /\ call'.doc.ser
      /\ (call'.op = "update" => Indexed(call'.pk)))
     => LET ref == InMemory_call(documents, call'.op, call'.doc, call'.pk) IN
        /\ (result' = "Ok") = (ref.res = "Ok")
        /\ documents' = ref.documents]_vars

(***************************************************************************)
(* Collection of lib.rs: a HashMap and an optional directory of <key>.json  *)
(* files.  backend is "Dir" when dir is Some, "InMemory" when it is None.   *)
(***************************************************************************)
lib_Init ==
  /\ kind = "lib::Collection"
  /\ backend \in {"Dir", "InMemory"}
  /\ rule \in IntersectRules
  /\ documents = <<>>
  /\ uuid_to_idx = [k \in {} |-> 0]
  /\ max_byte_length = 0
  /\ byte_length_increment = 0
  /\ file = <<>>
  /\ dir_files = [k \in Keys |-> NoFile]
  /\ call = NoCall
  /\ result = "Ok"
  /\ nops = 0
  /\ returned = <<>>
  /\ instance = 0
  /\ budget = MaxOps
  /\ file_handle = (IF backend = "File" THEN "Some" ELSE "None")
  /\ reopens = MaxReopens
  /\ guards = [t \in Threads |-> "none"]

\* if self.dir.is_some() { .. to_string(&doc).unwrap(); fs::write(path, json);
\* if err.is_err() { dbg!(..) } }; self.documents.insert(pk, doc); Ok(())
lib_Collection_store(op, doc, fail) ==
  LET s == IF backend = "Dir" THEN write_to_dir(doc, dir_files, fail)
           ELSE [res |-> "none", files |-> dir_files]
  IN /\ fail # 0 => s.res \notin {"none", "Ok", "panic"}
     /\ dir_files' = s.files
     /\ UNCHANGED <<uuid_to_idx, max_byte_length, file>>
     /\ IF s.res = "panic"
        THEN Returns(op, doc, primary_key(doc), s.res, "panic") /\ UNCHANGED documents
        ELSE /\ Returns(op, doc, primary_key(doc), s.res, "Ok")
             /\ documents' \in HashMap_insert(documents, doc)

lib_Collection_insert(new_doc, fail) ==
  /\ kind = "lib::Collection" /\ CanCall
  /\ IF contains_key(documents, primary_key(new_doc))
     THEN /\ fail = 0
          /\ Returns("insert", new_doc, primary_key(new_doc), "none", "Primary key used")
          /\ UNCHANGED <<index, store>>
     ELSE IF Collection_clash(documents, new_doc)
     THEN /\ fail = 0
          /\ Returns("insert", new_doc, primary_key(new_doc), "none",
                     "Intersection occurred")
          /\ UNCHANGED <<index, store>>
     ELSE lib_Collection_store("insert", new_doc, fail)

lib_Collection_update(updated_doc, fail) ==
  /\ kind = "lib::Collection" /\ CanCall
  /\ IF Collection_clash(documents, updated_doc)
     THEN /\ fail = 0
          /\ Returns("update", updated_doc, primary_key(updated_doc), "none",
                     "Intersection occurred")
          /\ UNCHANGED <<index, store>>
     ELSE lib_Collection_store("update", updated_doc, fail)

lib_Collection_delete(pk, fail) ==
  /\ kind = "lib::Collection" /\ CanCall
  /\ IF ~contains_key(documents, pk)
     THEN /\ fail = 0
          /\ Returns("delete", NoDoc, pk, "none", "Key does not exist")
          /\ UNCHANGED <<index, store>>
     ELSE LET s == IF backend = "Dir" THEN remove_from_dir(pk, dir_files, fail)
                   ELSE [res |-> "none", files |-> dir_files]
          IN /\ fail # 0 => s.res \notin {"none", "Ok"}
             /\ dir_files' = s.files
             /\ UNCHANGED <<uuid_to_idx, max_byte_length, file>>
             /\ documents' = shift_remove(documents, pk)
             /\ Returns("delete", NoDoc, pk, s.res, "Ok")

lib_Next ==
  \/ \E d \in Docs, fail \in Fails : lib_Collection_insert(d, fail)
  \/ \E d \in Docs, fail \in Fails : lib_Collection_update(d, fail)
  \/ \E pk \in Keys, fail \in Fails : lib_Collection_delete(pk, fail)

\* Every collection type of the crate, with any refused I/O call.
CrateSpec == (Init \/ lib_Init) /\ [][Next \/ lib_Next]_vars

(***************************************************************************)
(* C20.  No silent failure: on every collection type of the crate, the      *)
(* Collection of lib.rs included, a mutating call whose write or removal on *)
(* the storage medium failed returns an error; none returns Ok.             *)
(***************************************************************************)
C20_NoSilentFailure ==
  [][(nops' = nops + 1 /\ call'.s \notin {"none", "Ok", "panic"})
     => result' \in Errors]_vars

\* The same for the types of the collections module alone.
C20_NoSilentFailureInCollections ==
  [][(nops' = nops + 1 /\ kind # "lib::Collection"
      /\ call'.s \notin {"none", "Ok", "panic"})
     => result' \in Errors]_vars

(***************************************************************************)
(* Construction over a path on a storage medium that can refuse the open    *)
(* or a read.                                                               *)
(***************************************************************************)
NextConstruct ==
  \/ NextNoFault
  \/ \E fail \in NewFails : Collection_new(fail)
  \/ \E fail \in NewFails : FileBasedCollection_new(fail)

ConstructSpec == Init /\ [][NextConstruct]_vars

\* A construction ran.
Constructed == instance' = instance + 1

\* docs holds only documents that the earlier instance indexed.
LoadedFrom(docs, stored) ==
  \A i \in 1..Len(docs) : \E j \in 1..Len(stored) : docs[i] = stored[j]

(***************************************************************************)
(* C21.  Best-effort construction: when the open of the file, the read of   *)
(* the directory or the read of a line or file is refused at construction,  *)
(* construction does not panic and yields a collection whose index is empty *)
(* or holds part of what is stored, for Collection with the Dir and File    *)
(* backends and for FileBasedCollection.                                    *)
(***************************************************************************)
C21_BestEffortConstruction ==
  [][(Constructed /\ backend \in {"Dir", "File"} /\ call'.s # "none")
     => /\ result' = "Ok"
        /\ LoadedFrom(documents', documents)]_vars

\* The part of it that the code keeps: Collection degrades to an empty or
\* partly loaded index when the open of its file, the read of its directory
\* or the open of one file of the directory is refused.
C21_CollectionSurvivesRefusedOpen ==
  [][(Constructed /\ kind = "Collection"
      /\ call'.s \in {"open refused", "entry refused"})
     => /\ result' = "Ok"
        /\ LoadedFrom(documents', documents)
        /\ call'.s = "open refused" => documents' = <<>>]_vars

\* Every indexed document fits the slot.
DocumentsFit == \A i \in 1..Len(documents) : documents[i].len <= max_byte_length

(***************************************************************************)
(* C22.  RecordTooLarge is unreachable: in every reachable state of a       *)
(* single-file collection, the state right after loading a file written by  *)
(* an earlier instance included, every indexed document's serialized length *)
(* is <= max_byte_length, and no rewrite run by delete or by a resize fails *)
(* with "Struct is to large".                                               *)
(***************************************************************************)
C22_RecordTooLargeUnreachable ==
  /\ []((backend = "File" /\ result # "panic") => DocumentsFit)
  /\ [][(backend = "File" /\ nops' = nops + 1)
        => /\ call'.s # "Struct is to large"
           /\ (call'.s = "Failed to resize DB" /\ FLen(file') < FLen(file))
                => \A i \in 1..Len(documents) : documents[i].len <= max_byte_length']_vars

\* The same within the instance constructed over the empty path.
C22_FitsWithinFirstInstance ==
  (backend = "File" /\ instance = 0) => DocumentsFit

\* The index a further instance would load from file f.
Reloaded(f) ==
  IF kind = "FileBasedCollection" THEN read_lines(f) ELSE load_structs_from_file(f)

(***************************************************************************)
(* C23.  Index/file consistency across reopen: on a single-file collection  *)
(* constructed over a file whose slots an earlier instance wrote larger     *)
(* than the initial slot size, every successful insert or update leaves a   *)
(* file that holds exactly the indexed documents, one per slot in index     *)
(* order, from which a further instance loads the same index.               *)
(***************************************************************************)
C23_ConsistentAcrossReopen ==
  [][((Succeeded("insert") \/ Succeeded("update")) /\ backend = "File"
      /\ instance > 0 /\ FLen(first_line(file)) > InitialSlotSize)
     => /\ FileMatchesIndex(file', documents', max_byte_length')
        /\ Reloaded(file') = documents']_vars

\* The same when every loaded document fits the slot size the new instance
\* starts from.
C23_ConsistentWhenNotGrown ==
  [][((Succeeded("insert") \/ Succeeded("update")) /\ backend = "File"
      /\ instance > 0 /\ DocumentsFit
      /\ FileMatchesIndex(file, documents, max_byte_length))
     => /\ FileMatchesIndex(file', documents', max_byte_length')
        /\ Reloaded(file') = documents']_vars

(***************************************************************************)
(* Documents whose JSON text holds multi-byte characters: mb is the number  *)
(* of bytes of the text beyond its number of characters.                    *)
(***************************************************************************)
MultiByteDocs == [key: Keys, name: Names, len: DocLens, mb: {0, 2}, ser: {TRUE}]

MultiByteInit == Init /\ backend = "File"

MultiByteNext ==
  \/ \E d \in MultiByteDocs : Collection_insert(d, 0)
  \/ \E d \in MultiByteDocs : Collection_update(d, 0)
  \/ \E pk \in Keys : Collection_delete(pk, 0)
  \/ \E d \in MultiByteDocs : FileBasedCollection_insert(d, 0)
  \/ \E d \in MultiByteDocs : FileBasedCollection_update(d, 0)
  \/ \E pk \in Keys : FileBasedCollection_delete(pk, 0)

MultiByteSpec == MultiByteInit /\ [][MultiByteNext]_vars

\* Consecutive slots of the file do not overlap: it is one slot of w + 1
\* bytes per indexed document, each starting with the document's JSON text.
SlotsApart(f, docs, w) ==
  /\ FLen(f) = Len(docs) * (w + 1)
  /\ \A i \in 1..Len(docs) : FTake(Slot(f, i - 1, w), docs[i].len) = to_string(docs[i])

(***************************************************************************)
(* C24.  Slot width: every slot written by insert, update, resize or        *)
(* rewrite is exactly max_byte_length + 1 bytes, for every document whose   *)
(* serialized byte length is <= max_byte_length, documents with multi-byte  *)
(* characters included, so consecutive slots never overlap.                 *)
(***************************************************************************)
C24_SlotWidth ==
  [][((Succeeded("insert") \/ Succeeded("update") \/ Succeeded("delete"))
      /\ backend = "File")
     => /\ \A i \in 1..Len(documents') :
             documents'[i].len <= max_byte_length'
             => FLen(padded_string(documents'[i], max_byte_length')) =
                  max_byte_length' + 1
        /\ SlotsApart(file', documents', max_byte_length')]_vars

(***************************************************************************)
(* C25.  In-place update: a successful update of a stored key on the        *)
(* single-file backend whose document fits the current max_byte_length      *)
(* writes only the slot at offset position * (max_byte_length + 1): the     *)
(* file length, max_byte_length, every byte outside that slot and the key's *)
(* position in the index are unchanged.                                     *)
(***************************************************************************)
C25_InPlaceUpdate ==
  [][(Succeeded("update") /\ backend = "File" /\ Indexed(call'.pk)
      /\ call'.doc.len <= max_byte_length)
     => LET k == Position(documents, uuid_to_idx, call'.pk)
            w == max_byte_length
        IN /\ max_byte_length' = w
           /\ FLen(file') = FLen(file)
           /\ Norm(FTake(file', k * (w + 1))) = Norm(FTake(file, k * (w + 1)))
           /\ Norm(FDrop(file', (k + 1) * (w + 1))) =
                Norm(FDrop(file, (k + 1) * (w + 1)))
           /\ Position(documents', uuid_to_idx', call'.pk) = k]_vars

\* What the code keeps: the same when the file matched the index before the
\* call and the document is one byte per character.
C25_InPlaceOnConsistentFile ==
  [][(Succeeded("update") /\ backend = "File" /\ Indexed(call'.pk)
      /\ call'.doc.len <= max_byte_length /\ call'.doc.mb = 0
      /\ FileMatchesIndex(file, documents, max_byte_length))
     => LET k == Position(documents, uuid_to_idx, call'.pk)
            w == max_byte_length
        IN /\ max_byte_length' = w
           /\ FLen(file') = FLen(file)
           /\ Slot(file', k, w) = padded_string(call'.doc, w)
           /\ Norm(FTake(file', k * (w + 1))) = Norm(FTake(file, k * (w + 1)))
           /\ Norm(FDrop(file', (k + 1) * (w + 1))) =
                Norm(FDrop(file, (k + 1) * (w + 1)))
           /\ Position(documents', uuid_to_idx', call'.pk) = k]_vars

(***************************************************************************)
(* Construction over a file that earlier instances wrote and rewrote.       *)
(***************************************************************************)
\* New instances constructed over the path after the first one, and calls
\* made on the instances.
LoadReopens == 2
LoadOps == 4

LoadInit ==
  /\ kind \in {"Collection", "FileBasedCollection"} /\ backend = "File"
  /\ rule \in IntersectRules
  /\ documents = <<>>
  /\ uuid_to_idx = [k \in {} |-> 0]
  /\ max_byte_length = (IF kind = "Collection" THEN DefaultMaxByteLength
                        ELSE FileBasedInitialMaxByteLength)
  /\ byte_length_increment = (IF kind = "Collection" THEN DefaultByteLengthIncrement
                              ELSE FileBasedDefaultIncrement)
  /\ file = <<>>
  /\ dir_files = [k \in Keys |-> NoFile]
  /\ call = NoCall
  /\ result = "Ok"
  /\ nops = 0
  /\ returned = <<>>
  /\ instance = 0
  /\ budget = LoadOps
  /\ file_handle = "Some"
  /\ reopens = LoadReopens
  /\ guards = [t \in Threads |-> "none"]

LoadNext ==
  \/ \E d \in Docs, fail \in Fails : Collection_insert(d, fail)
  \/ \E d \in Docs, fail \in Fails : Collection_update(d, fail)
  \/ \E pk \in Keys, fail \in Fails : Collection_delete(pk, fail)
  \/ \E d \in Docs, fail \in Fails : FileBasedCollection_insert(d, fail)
  \/ \E d \in Docs, fail \in Fails : FileBasedCollection_update(d, fail)
  \/ \E pk \in Keys, fail \in Fails : FileBasedCollection_delete(pk, fail)
  \/ Collection_new(0)
  \/ FileBasedCollection_new(0)

LoadSpec == LoadInit /\ [][LoadNext]_vars

\* The lines of the file: line i (from 1) without its newline, and how many
\* there are (a last line without a newline counts).
RECURSIVE Line(_, _)
Line(f, i) == IF i <= 1 THEN first_line(f) ELSE Line(after_line(f), i - 1)

RECURSIVE NumLines(_)
NumLines(f) == IF Len(f) = 0 THEN 0 ELSE 1 + NumLines(after_line(f))

\* Line i is neither blank nor fails to deserialize.
Deserializes(f, i) == from_str(trim(Line(f, i))) # NoDoc

\* The first line that is blank or fails to deserialize; one past the last
\* line when there is none.
EndOfData(f) ==
  CHOOSE i \in 1..(NumLines(f) + 1) :
    /\ i = NumLines(f) + 1 \/ ~Deserializes(f, i)
    /\ \A j \in 1..(i - 1) : Deserializes(f, j)

(***************************************************************************)
(* C26.  Load end-of-data: constructing a single-file collection reads the  *)
(* file line by line and stops at the first line that is blank or fails to  *)
(* deserialize; the index holds exactly the documents of the lines before   *)
(* that line, in file order, and none from a later line.                    *)
(***************************************************************************)
C26_LoadEndOfData ==
  [][(Constructed /\ backend = "File")
     => LET e == EndOfData(file) IN
        /\ Len(documents') = e - 1
        /\ \A i \in 1..(e - 1) : documents'[i] = from_str(trim(Line(file, i)))]_vars

\* What the code keeps: the same when the lines before the end of data hold
\* documents of different keys.
C26_LoadEndOfDataDistinctKeys ==
  [][(Constructed /\ backend = "File"
      /\ \A i, j \in 1..(EndOfData(file) - 1) :
            i # j => from_str(trim(Line(file, i))).key # from_str(trim(Line(file, j))).key)
     => LET e == EndOfData(file) IN
        /\ Len(documents') = e - 1
        /\ \A i \in 1..(e - 1) : documents'[i] = from_str(trim(Line(file, i)))]_vars

\* The <key>.json files of the directory are those of the indexed keys, each
\* holding the JSON text of the indexed document.
DirMatchesIndex(files, docs) ==
  \A k \in Keys :
    /\ files[k].exists <=> contains_key(docs, k)
    /\ files[k].exists => files[k].data = by_primary_key(docs, k)

(***************************************************************************)
(* C27.  Directory backend consistency: for a Dir-backend collection        *)
(* started over an empty directory, after every successful insert, update   *)
(* or delete the <key>.json files of the directory are exactly those of the *)
(* indexed keys and each holds the serialization of the indexed document.   *)
(***************************************************************************)
C27_DirConsistent ==
  (kind = "Collection" /\ backend = "Dir" /\ instance = 0
   /\ call.op \in {"insert", "update", "delete"} /\ result = "Ok")
  => DirMatchesIndex(dir_files, documents)

\* What the code keeps: a successful call on a directory that matched the
\* index leaves a directory that matches the index.
C27_DirConsistencyPreserved ==
  [][(kind = "Collection" /\ backend = "Dir" /\ nops' = nops + 1 /\ result' = "Ok"
      /\ DirMatchesIndex(dir_files, documents))
     => DirMatchesIndex(dir_files', documents')]_vars

(***************************************************************************)
(* Threads sharing one Collection through the Arc<RwLock<Collection>> of    *)
(* new_arc.  A thread takes a guard, makes calls through it and drops it;   *)
(* a panic under a guard poisons the lock, and write().unwrap() or          *)
(* read().unwrap() then panic in every other thread.                        *)
(***************************************************************************)
ThreadInit == Init /\ kind = "Collection"

\* The variables a guard operation leaves alone.
shared == <<index, store, call, result, nops, returned, kind, backend, rule,
            byte_length_increment, instance, budget, file_handle, reopens>>

\* arc.write().unwrap(): granted when no other guard is held.
RwLock_write(t) ==
  /\ result # "panic"
  /\ \A u \in Threads : guards[u] = "none"
  /\ guards' = [guards EXCEPT ![t] = "write"]
  /\ UNCHANGED shared

\* arc.read().unwrap(): granted when no write guard is held.
RwLock_read(t) ==
  /\ result # "panic"
  /\ guards[t] = "none"
  /\ \A u \in Threads : guards[u] # "write"
  /\ guards' = [guards EXCEPT ![t] = "read"]
  /\ UNCHANGED shared

\* The guard goes out of scope.
drop_guard(t) ==
  /\ guards[t] # "none"
  /\ guards' = [guards EXCEPT ![t] = "none"]
  /\ UNCHANGED shared

\* Some thread holds the guard that the call needs (&mut self or &self).
HoldsWrite == \E t \in Threads : guards[t] = "write"
HoldsGuard == \E t \in Threads : guards[t] # "none"

ThreadNext ==
  \/ \E t \in Threads : RwLock_write(t)
  \/ \E t \in Threads : RwLock_read(t)
  \/ \E t \in Threads : drop_guard(t)
  \/ HoldsWrite /\ \E d \in Docs, fail \in Fails : Collection_insert(d, fail)
  \/ HoldsWrite /\ \E d \in Docs, fail \in Fails : Collection_update(d, fail)
  \/ HoldsWrite /\ \E pk \in Keys, fail \in Fails : Collection_delete(pk, fail)
  \/ HoldsGuard /\ \E p \in Predicates : Collection_filter(p)
  \/ HoldsGuard /\ \E p \in Predicates : Collection_find(p)
  \/ HoldsGuard /\ \E pk \in Keys : Collection_by_primary_key(pk)

ThreadSpec == ThreadInit /\ [][ThreadNext]_vars

\* A thread holds a read guard: the state is observable by a reader.
ReaderObserves == \E t \in Threads : guards[t] = "read"

\* The backend holds what the index holds.
BackendMatchesIndex ==
  /\ backend = "File" => FileMatchesIndex(file, documents, max_byte_length)
  /\ backend = "Dir" => DirMatchesIndex(dir_files, documents)

\* Two documents of which at most one may be stored: the same key, or a
\* conflict in both argument orders.
MutuallyConflicting(a, b) ==
  a.key = b.key \/ (intersects(a, b) /\ intersects(b, a))

(***************************************************************************)
(* C28.  Guarded sharing: when threads access one collection only through   *)
(* the RwLock of new_arc, the uniqueness invariant holds in every state a   *)
(* reader can observe, the backend matches the index in every such state    *)
(* that follows a successful insert, update or delete, and of two inserts   *)
(* of mutually conflicting or same-key documents made one after the other   *)
(* by the threads at most one returns Ok.                                   *)
(***************************************************************************)
C28_GuardedSharing ==
  /\ [](ReaderObserves
        => /\ C1_Uniqueness
           /\ (call.op \in {"insert", "update", "delete"} /\ result = "Ok")
                => BackendMatchesIndex)
  /\ [][(Called("insert") /\ call.op = "insert" /\ result = "Ok"
         /\ MutuallyConflicting(call.doc, call'.doc))
        => result' # "Ok"]_vars

\* What the lock gives: a write guard is held alone.
C28_WriterExcludes ==
  \A t, u \in Threads : (guards[t] = "write" /\ u # t) => guards[u] = "none"

\* What the code keeps of the claim: the second of two inserts of mutually
\* conflicting or same-key documents fails, and with a symmetric intersects
\* and no refused I/O readers observe a unique index over a matching backend.
C28_SecondInsertFails ==
  [][(Called("insert") /\ call.op = "insert" /\ result = "Ok"
      /\ MutuallyConflicting(call.doc, call'.doc))
     => result' # "Ok"]_vars

C28_UniqueWhenSymmetric ==
  (ReaderObserves /\ \A a, b \in Names : (<<a, b>> \in rule) = (<<b, a>> \in rule))
  => C1_Uniqueness

\* The slots 0..j-1 of docs at slot size w, and nothing else.
RECURSIVE FirstSlots(_, _, _)
FirstSlots(docs, j, w) ==
  IF j <= 0 THEN <<>>
  ELSE Norm(FirstSlots(docs, j - 1, w) \o padded_string(docs[j], w))

ShortInit == Init /\ backend = "File"

ShortNext ==
  \/ \E d \in Docs, fail \in ShortFails \cup {0} : Collection_insert(d, fail)
  \/ \E d \in Docs, fail \in ShortFails \cup {0} : Collection_update(d, fail)
  \/ \E pk \in Keys : Collection_delete(pk, 0)
  \/ \E d \in Docs, fail \in ShortFails \cup {0} : FileBasedCollection_insert(d, fail)
  \/ \E d \in Docs, fail \in ShortFails \cup {0} : FileBasedCollection_update(d, fail)
  \/ \E pk \in Keys : FileBasedCollection_delete(pk, 0)

ShortSpec == ShortInit /\ [][ShortNext]_vars

\* The bytes of doc's slot are in the file f at position idx.
SlotPersisted(f, doc, idx, w) ==
  LET slot == padded_string(doc, w) IN
  Norm(FTake(FDrop(f, idx * (w + 1)), FLen(slot))) = slot

(***************************************************************************)
(* C30.  Write success means the whole slot is persisted: on the            *)
(* single-file backend an insert or update that returns Ok, and so adds or  *)
(* replaces the document in the index, has written all the bytes of the     *)
(* document's slot to the file, also when a positional write reports        *)
(* success after writing only a prefix of the slot.                         *)
(***************************************************************************)
C30_WholeSlotPersisted ==
  [][((Succeeded("insert") \/ Succeeded("update")) /\ backend = "File")
     => /\ Lookup(documents', uuid_to_idx', call'.pk) = call'.doc
        /\ SlotPersisted(file', call'.doc,
                         Position(documents', uuid_to_idx', call'.pk),
                         max_byte_length')]_vars

\* The collection is degraded: a File-backend Collection whose file could not
\* be opened at construction.
Degraded == kind = "Collection" /\ backend = "File" /\ file_handle = "None"

(***************************************************************************)
(* C31.  Operations on a degraded collection return results: on a           *)
(* File-backend Collection whose file could not be opened at construction,  *)
(* insert, update and delete each return an error value to the caller       *)
(* rather than aborting the process.                                        *)
(***************************************************************************)
C31_DegradedReturnsErrors ==
  [][(Degraded /\ (Called("insert") \/ Called("update") \/ Called("delete")))
     => result' \in Errors]_vars

\* What the code keeps: delete, and update of a document that fits the slot
\* size, find no key in the empty index and return an error.
C31_DegradedDeleteAndSmallUpdate ==
  [][(Degraded
      /\ \/ Called("delete")
         \/ Called("update") /\ call'.doc.len <= max_byte_length)
     => result' \in Errors]_vars

\* The map is a bijection from the keys of the vector onto its positions,
\* and each key leads to its own document.
InStep(docs, map) ==
  /\ DOMAIN map = {primary_key(docs[i]) : i \in 1..Len(docs)}
  /\ Cardinality(DOMAIN map) = Len(docs)
  /\ {map[k] : k \in DOMAIN map} = 0..(Len(docs) - 1)
  /\ \A k \in DOMAIN map : primary_key(docs[map[k] + 1]) = k

(***************************************************************************)
(* C32.  FileBasedCollection keeps its two structures in step: in every     *)
(* state reached by insert / update / delete from an empty file,            *)
(* uuid_to_idx has exactly one entry per element of documents, its values   *)
(* are the positions 0..len-1, documents[uuid_to_idx[k]] has key k, and     *)
(* deleting position idx lowers every larger position by exactly one.       *)
(***************************************************************************)
C32_StructuresInStep ==
  /\ []((kind = "FileBasedCollection" /\ instance = 0) => InStep(documents, uuid_to_idx))
  /\ [][(kind = "FileBasedCollection" /\ Called("delete")
         /\ call'.pk \in DOMAIN uuid_to_idx)
        => /\ call'.pk \notin DOMAIN uuid_to_idx'
           /\ \A k \in DOMAIN uuid_to_idx \ {call'.pk} :
                /\ k \in DOMAIN uuid_to_idx'
                /\ uuid_to_idx'[k] =
                     (IF uuid_to_idx[k] > uuid_to_idx[call'.pk]
                      THEN uuid_to_idx[k] - 1 ELSE uuid_to_idx[k])
                /\ documents'[uuid_to_idx'[k] + 1] = documents[uuid_to_idx[k] + 1]]_vars

\* Two documents were stored and one deleted: the other is at position 0.
C32_Witness ==
  /\ kind = "FileBasedCollection" /\ instance = 0
  /\ call.op = "delete" /\ call.prev # NoDoc /\ nops = 3
  /\ Len(documents) = 1
  /\ DOMAIN uuid_to_idx = {primary_key(documents[1])}
  /\ uuid_to_idx[primary_key(documents[1])] = 0

(***************************************************************************)
(* Collection with the File backend as a function, on a storage medium that *)
(* refuses nothing: what a call returns and the index it leaves, from the   *)
(* index it finds.                                                          *)
(***************************************************************************)
File_call(docs, op, doc, pk) ==
  CASE op = "insert" ->
         IF contains_key(docs, primary_key(doc))
         THEN [res |-> "Primary key used", documents |-> docs]
         ELSE IF Collection_clash(docs, doc)
         THEN [res |-> "Intersection occurred", documents |-> docs]
         ELSE IF ~doc.ser
         THEN [res |-> "Error writing to DB", documents |-> docs]
         ELSE [res |-> "Ok", documents |-> IndexMap_insert(docs, doc)]
    [] op = "update" ->
         IF Collection_clash(docs, doc)
         THEN [res |-> "Intersection occurred", documents |-> docs]
         ELSE IF ~doc.ser \/ ~contains_key(docs, primary_key(doc))
         THEN [res |-> "Error writing to DB", documents |-> docs]
         ELSE [res |-> "Ok", documents |-> IndexMap_insert(docs, doc)]
    [] op = "delete" ->
         IF ~contains_key(docs, pk)
         THEN [res |-> "Key does not exist", documents |-> docs]
         ELSE [res |-> "Ok", documents |-> shift_remove(docs, pk)]

\* The step returns, leaves and stores what the Collection with the File
\* backend returns, leaves and stores from the same index; a read returns
\* what the Collection's read returns from it.
AsFileCollection ==
  /\ nops' = nops + 1
       => LET ref == File_call(documents, call'.op, call'.doc, call'.pk) IN
          /\ (result' = "Ok") = (ref.res = "Ok")
          /\ documents' = ref.documents
          /\ result' = "Ok" => FileMatchesIndex(file', documents', max_byte_length')
  /\ Read("filter") => returned' = filter(documents, call'.p)
  /\ Read("find") => returned' = find(documents, call'.p)
  /\ Read("by_primary_key") => returned' = get(documents, call'.pk)

(***************************************************************************)
(* C33.  FileBasedCollection and Collection with the File backend are       *)
(* observationally equivalent: started over empty files and given the same  *)
(* calls with no I/O failure they return the same success or error for      *)
(* every call, answer by_primary_key, find and filter identically and       *)
(* store the documents in the same slot order.  Each call on each of the    *)
(* two returns and leaves what the Collection returns and leaves from the   *)
(* same index.                                                              *)
(***************************************************************************)
C33_FileCollectionsEquivalent ==
  [][(backend = "File" /\ instance = 0) => AsFileCollection]_vars

\* The reference is the Collection.
C33_CollectionIsReference ==
  [][(backend = "File" /\ instance = 0 /\ kind = "Collection") => AsFileCollection]_vars

\* The same for callers whose intersects is symmetric.
C33_EquivalentWhenSymmetric ==
  [][(backend = "File" /\ instance = 0
      /\ \A a, b \in Names : (<<a, b>> \in rule) = (<<b, a>> \in rule))
     => AsFileCollection]_vars

\* The call grew the slot size, its resize rewrote the file, and it failed
\* afterwards: at the write of its own slot, or for want of a position.
FailedAfterResize ==
  /\ backend = "File" /\ (Called("insert") \/ Called("update"))
  /\ needs_resize(call'.doc.len, max_byte_length)
  /\ call'.s \in {"Failed to write", "Row idx cannot be found"}

(***************************************************************************)
(* C34.  A failed insert or update on the single-file backend that fails    *)
(* after its resize rewrite completed may leave max_byte_length grown, but  *)
(* the index is unchanged and the file holds exactly the documents of the   *)
(* index, one per slot in index order at the grown slot size.               *)
(***************************************************************************)
C34_ConsistentAfterLateFailure ==
  [][FailedAfterResize
     => /\ result' \in Errors
        /\ documents' = documents /\ uuid_to_idx' = uuid_to_idx
        /\ max_byte_length' >= call'.doc.len
        /\ FileMatchesIndex(file', documents', max_byte_length')]_vars

\* What the code keeps: the same when every stored document is one byte per
\* character.
C34_ConsistentWhenSingleByte ==
  [][(FailedAfterResize /\ \A i \in 1..Len(documents) : documents[i].mb = 0)
     => /\ result' \in Errors
        /\ documents' = documents /\ uuid_to_idx' = uuid_to_idx
        /\ max_byte_length' >= call'.doc.len
        /\ FileMatchesIndex(file', documents', max_byte_length')]_vars

====
